---- MODULE Spec2Model ----
(***************************************************************************)
(* A model of ashley_llm_assignment.py: the SEC 8-K scraper that feeds     *)
(* filing text to a local language model and tabulates the products the    *)
(* model reports.                                                          *)
(*                                                                         *)
(* A Python str is a sequence of one-character strings.  Characters that   *)
(* are not ASCII are named: "NBSP" is U+00A0, "THIN" U+2009, "ENSP"        *)
(* U+2002, "EMSP" U+2003 and "BOX" U+2610; each is ONE character.          *)
(* A Python value that may be None is a sequence of length at most one:    *)
(* None is << >> and a value v is << v >>.                                 *)
(***************************************************************************)
EXTENDS Integers, Sequences, FiniteSets, TLC

VARIABLES
    pc,               \* position of the script / of the function under study
    content,          \* line 170: the filing text handed to extract_product_info
    llm,              \* what ollama.generate does when it is called
    product_info,     \* extract_product_info: its return value
    called,           \* whether ollama.generate was invoked by the last call
    markup,           \* extract_section: its argument
    text1,            \* extract_section(markup)
    text2,            \* extract_section(extract_section(markup))
    filings_data,     \* get_8k_filings: what the index request does
    filings,          \* line 164: the list get_8k_filings returned
    company_data,     \* lines 148-154: the companies of the run
    ci,               \* line 157: how many companies the loop has taken
    fi,               \* line 166: how many filings of this company it has taken
    results_df,       \* lines 11-13, 177-183: the result table
    written,          \* line 190: the table handed to to_csv, None before
    fetched,          \* history: the filings of this company whose content was requested
    yielded,          \* history: the (company, filing) steps whose extraction returned a record
    modelCalls,       \* history: calls of ollama.generate in the run
    nonEmptyFetches   \* history: content requests that returned a non-empty text

fnVars == <<content, llm, product_info, called, markup, text1, text2,
            filings_data, filings>>

runVars == <<company_data, ci, fi, results_df, written, fetched, yielded,
             modelCalls, nonEmptyFetches>>

vars == <<pc, fnVars, runVars>>

(***************************************************************************)
(* Python values                                                           *)
(***************************************************************************)
None == << >>

Some(v) == << v >>

\* Python truthiness of an Optional[str] / Optional[dict]: None and "" are falsy
Truthy(v) == v # None /\ v[1] # << >>

Min(S) == CHOOSE x \in S : \A y \in S : x <= y

Max(S) == CHOOSE x \in S : \A y \in S : y <= x

(***************************************************************************)
(* str operations, with Python's 0-based indices                           *)
(***************************************************************************)
\* s[i:i+len(sub)] == sub
MatchAt(s, sub, i) ==
    /\ i >= 0
    /\ i + Len(sub) <= Len(s)
    /\ \A k \in 1..Len(sub) : s[i + k] = sub[k]

\* s.find(sub, start): the lowest index >= start where sub occurs, else -1
Find(s, sub, start) ==
    LET hits == {i \in start..(Len(s) - Len(sub)) : MatchAt(s, sub, i)}
    IN  IF hits = {} THEN -1 ELSE Min(hits)

\* sub in s
Contains(s, sub) == Find(s, sub, 0) # -1

\* s[a:b] for 0 <= a, with Python's clamping of b
Slice(s, a, b) ==
    LET hi == IF b > Len(s) THEN Len(s) ELSE b
    IN  IF a >= hi THEN << >> ELSE SubSeq(s, a + 1, hi)

\* the characters str.strip() removes (str.isspace), as far as the model's
\* alphabet has them
Whitespace == {" ", "\t", "\n", "\r", "\f", "NBSP", "THIN", "ENSP", "EMSP"}

\* s.strip()
Strip(s) ==
    LET keep == {i \in 1..Len(s) : s[i] \notin Whitespace}
    IN  IF keep = {} THEN << >> ELSE SubSeq(s, Min(keep), Max(keep))

(***************************************************************************)
(* The literals of extract_product_info                                    *)
(***************************************************************************)
NoProductPhrase ==
    <<"N","o"," ","n","e","w"," ","p","r","o","d","u","c","t"," ","f","o","u","n","d">>

NameAnchor ==
    <<"N","e","w"," ","P","r","o","d","u","c","t"," ","N","a","m","e",":">>

DescAnchor ==
    <<"P","r","o","d","u","c","t"," ","D","e","s","c","r","i","p","t","i","o","n",":">>

Ellipsis == <<".", ".", ".">>

NL == <<"\n">>

\* the description's cap and the length kept before the ellipsis
DescLimit == 180

DescKeep == 177

(***************************************************************************)
(* extract_product_info                                                    *)
(***************************************************************************)
\* line 73: "if not filing_content"
NoContentMissesEmpty(filing_content) == filing_content = None

NoContent(filing_content) == ~Truthy(filing_content)

\* line 101: the sentinel phrase occurs anywhere in the reply
NoProductFoundAtStart(llm_response) == MatchAt(llm_response, NoProductPhrase, 0)

NoProductFound(llm_response) == Contains(llm_response, NoProductPhrase)

\* lines 109-113 and 116-120: the text from just after the first occurrence of
\* the anchor to the next line break (or the end of the reply), stripped
FieldAfter(llm_response, anchor) ==
    LET start == Find(llm_response, anchor, 0) + Len(anchor)
        nl    == Find(llm_response, NL, start)
        end   == IF nl = -1 THEN Len(llm_response) ELSE nl
    IN  Strip(Slice(llm_response, start, end))

\* lines 104, 108-113
ProductName(llm_response) ==
    IF Contains(llm_response, NameAnchor)
    THEN Some(FieldAfter(llm_response, NameAnchor))
    ELSE None

\* lines 123-124
TruncateKeepsLimit(product_description) ==
    IF Len(product_description) > DescLimit
    THEN Slice(product_description, 0, DescLimit) \o Ellipsis
    ELSE product_description

Truncate(product_description) ==
    IF Len(product_description) # 0 /\ Len(product_description) > DescLimit
    THEN Slice(product_description, 0, DescKeep) \o Ellipsis
    ELSE product_description

\* lines 105, 115-124
ProductDescription(llm_response) ==
    IF Contains(llm_response, DescAnchor)
    THEN Some(Truncate(FieldAfter(llm_response, DescAnchor)))
    ELSE None

\* line 126: "if product_name"
HasNameNotNone(product_name) == product_name # None

HasName(product_name) == Truthy(product_name)

\* lines 100-131: the parse of the model's reply
ParseReply(llm_response) ==
    IF NoProductFound(llm_response)
    THEN None
    ELSE LET product_name        == ProductName(llm_response)
             product_description == ProductDescription(llm_response)
         IN  IF HasName(product_name)
             THEN Some([new_product         |-> product_name[1],
                        product_description |->
                            IF Truthy(product_description)
                            THEN product_description[1]
                            ELSE << >>])
             ELSE None

\* lines 72-135.  reply is what ollama.generate does if it is called: it
\* raises (or its result has no 'response' key), or it returns a text.
\* ret is the return value, called tells whether the model was invoked.
extract_product_info(filing_content, reply) ==
    IF NoContent(filing_content)
    THEN [ret |-> None, called |-> FALSE]
    ELSE IF reply.raised
         THEN [ret |-> None, called |-> TRUE]
         ELSE [ret |-> ParseReply(reply.response), called |-> TRUE]

Raised == [raised |-> TRUE, response |-> << >>]

\* the value of llm in a step that does not call the model
NoCall == [raised |-> FALSE, response |-> << >>]

Reply(text) == [raised |-> FALSE, response |-> text]

(***************************************************************************)
(* extract_section: BeautifulSoup(html, 'html.parser').get_text(' ', True) *)
(* followed by the five replacements of line 19                            *)
(***************************************************************************)
Letters == {"a", "b", "c", "g", "l", "t", "x", "y", "E", "T", "V", "W", "X"}

\* html.parser: "<" opens a tag when a letter, or "/" and a letter, follows
\* it and a ">" closes it; the tag runs to the first ">".  TagEnd is the
\* 1-based position of that ">", or 0 when position i opens no tag (the "<"
\* is then ordinary text, as is a tag that no ">" closes: CPython 3.11).
\* Comments, declarations, script and style elements, quoted attribute
\* values and entities other than &lt; and &gt; are outside the alphabet.
TagEnd(s, i) ==
    IF /\ s[i] = "<"
       /\ \/ (i + 1 <= Len(s) /\ s[i + 1] \in Letters)
          \/ (i + 2 <= Len(s) /\ s[i + 1] = "/" /\ s[i + 2] \in Letters)
    THEN Find(s, <<">">>, i) + 1
    ELSE 0

EntityLt == <<"&", "l", "t", ";">>

EntityGt == <<"&", "g", "t", ";">>

\* the text nodes of the parsed document, in document order: a tag ends the
\* node being read, the entity references &lt; and &gt; are decoded into it
RECURSIVE TextNodes(_, _, _)
TextNodes(s, i, cur) ==
    IF i > Len(s) THEN << cur >>
    ELSE IF TagEnd(s, i) > 0
         THEN << cur >> \o TextNodes(s, TagEnd(s, i) + 1, << >>)
    ELSE IF MatchAt(s, EntityLt, i - 1)
         THEN TextNodes(s, i + 4, cur \o <<"<">>)
    ELSE IF MatchAt(s, EntityGt, i - 1)
         THEN TextNodes(s, i + 4, cur \o <<">">>)
    ELSE TextNodes(s, i + 1, cur \o << s[i] >>)

\* separator.join(strings)
RECURSIVE Join(_, _)
Join(strings, separator) ==
    IF strings = << >> THEN << >>
    ELSE IF Len(strings) = 1 THEN strings[1]
    ELSE strings[1] \o separator \o Join(Tail(strings), separator)

\* line 18: every text node stripped, the empty ones dropped, joined by " "
GetText(html_content) ==
    LET nodes    == TextNodes(html_content, 1, << >>)
        stripped == [k \in 1..Len(nodes) |-> Strip(nodes[k])]
    IN  Join(SelectSeq(stripped, LAMBDA n : n # << >>), <<" ">>)

\* s.replace(old, new): the occurrences of old that do not overlap, from
\* the left
RECURSIVE Replace(_, _, _)
Replace(s, old, new) ==
    LET i == Find(s, old, 0)
    IN  IF i = -1 THEN s
        ELSE Slice(s, 0, i) \o new
             \o Replace(Slice(s, i + Len(old), Len(s)), old, new)

\* lines 15-19
extract_section(html_content) ==
    LET t0 == GetText(html_content)
        t1 == Replace(t0, <<"NBSP">>, <<" ">>)
        t2 == Replace(t1, <<"THIN">>, <<" ">>)
        t3 == Replace(t2, <<"ENSP">>, <<" ">>)
        t4 == Replace(t3, <<"EMSP">>, <<" ">>)
    IN  Replace(t4, <<" ", "BOX", " ">>, <<" ">>)

(***************************************************************************)
(* get_8k_filings                                                          *)
(***************************************************************************)
\* line 34: "form == '8-K'"
IsTargetFormByPrefix(form) == form \in {"8-K", "8-K/A"}

IsTargetForm(form) == form = "8-K"

\* lines 44-46: the except clause turns whatever the body raised into []
IndexExceptReraises(outcome) == outcome

IndexExcept(outcome) ==
    IF outcome.raised THEN [raised |-> FALSE, ret |-> << >>] ELSE outcome

\* lines 24-43, the body of the try.  data.raised: the request, its status
\* check or the JSON decoding raised.  data.has_recent: the JSON has
\* ['filings']['recent'].  A key missing from it reads as the empty list
\* (line 34, 37, 38: .get(key, [])); indexing past the end of filingDate or
\* accessionNumber raises IndexError.  Indices are 1-based here.
get_8k_filings_try(data) ==
    IF data.raised THEN [raised |-> TRUE, ret |-> << >>]
    ELSE IF ~data.has_recent THEN [raised |-> FALSE, ret |-> << >>]
    ELSE LET form_indices ==
                 SelectSeq([i \in 1..Len(data.form) |-> i],
                           LAMBDA i : IsTargetForm(data.form[i]))
         IN  IF \E k \in 1..Len(form_indices) :
                    \/ form_indices[k] > Len(data.filingDate)
                    \/ form_indices[k] > Len(data.accessionNumber)
             THEN [raised |-> TRUE, ret |-> << >>]
             ELSE [raised |-> FALSE,
                   ret |-> [k \in 1..Len(form_indices) |->
                               <<data.filingDate[form_indices[k]],
                                 data.accessionNumber[form_indices[k]]>>]]

\* lines 22-46
get_8k_filings(data) == IndexExcept(get_8k_filings_try(data))

(***************************************************************************)
(* get_filing_content                                                      *)
(***************************************************************************)
TextOpen == <<"<", "T", "E", "X", "T", ">">>

TextClose == <<"<", "/", "T", "E", "X", "T", ">">>

\* lines 51-67.  doc.raised: the request or its status check raised.
\* Line 61: the leftmost <TEXT> that a </TEXT> follows, up to the nearest one.
get_filing_content(doc) ==
    IF doc.raised THEN None
    ELSE LET open  == Find(doc.text, TextOpen, 0)
             close == IF open = -1 THEN -1
                      ELSE Find(doc.text, TextClose, open + Len(TextOpen))
         IN  IF close # -1
             THEN Some(extract_section(Slice(doc.text, open + Len(TextOpen), close)))
             ELSE Some(extract_section(doc.text))

(***************************************************************************)
(* The main loop's own pieces                                              *)
(***************************************************************************)
FilingCap == 5

\* line 166: filings[:5]
SelectFilingsUncapped(all) == all

SelectFilings(all) == Slice(all, 0, FilingCap)

\* line 176: "if product_info"
ShouldAppend(info) == info # None

\* lines 177-183: the row of one extraction
MakeRowDatedByAccession(company, filing, info) ==
    [company_name        |-> company.title,
     stock_name          |-> company.ticker,
     filing_time         |-> filing[2],
     new_product         |-> info.new_product,
     product_description |-> info.product_description]

MakeRow(company, filing, info) ==
    [company_name        |-> company.title,
     stock_name          |-> company.ticker,
     filing_time         |-> filing[1],
     new_product         |-> info.new_product,
     product_description |-> info.product_description]

\* line 177: pd.concat([results_df, <one row>], ignore_index=True)
ConcatRowFirst(table, row) == << row >> \o table

ConcatRow(table, row) == table \o << row >>

(***************************************************************************)
(* Inputs of the function-level specifications                             *)
(***************************************************************************)
RECURSIVE Flatten(_)
Flatten(ss) == IF ss = << >> THEN << >> ELSE Head(ss) \o Flatten(Tail(ss))

\* every concatenation of at most n members of Pieces
Concats(Pieces, n) ==
    {Flatten(ss) : ss \in UNION {[1..k -> Pieces] : k \in 0..n}}

Run(c, n) == [i \in 1..n |-> c]

MaxSegs == 4

ReplySegs == {NameAnchor, DescAnchor, NoProductPhrase, NL, <<" ">>, <<"V">>}

\* replies made of anchors, the sentinel, line breaks, blanks and a letter
ShortReplies == Concats(ReplySegs, MaxSegs)

MaxDescLen == 182

\* replies whose description line is around the cap
LongReplies ==
    {head \o DescAnchor \o lead \o Run("x", n) \o tail :
        head \in {<< >>, NameAnchor \o <<" ", "V">> \o NL},
        lead \in {<< >>, <<" ">>},
        n    \in (DescKeep - 1)..MaxDescLen,
        tail \in {<< >>, <<" ">>, NL \o NameAnchor \o <<"W">>, NL \o NoProductPhrase}}

Replies == {Raised} \cup {Reply(t) : t \in ShortReplies \cup LongReplies}

Contents == {None, Some(<< >>), Some(<<"t">>)}

MaxTextLen == 7

MaxPieces == 3

TagOpen == <<"<", "b", ">">>

TagClose == <<"<", "/", "b", ">">>

\* plain text with blanks and checkbox glyphs, and short marked-up texts
\* with the blank variants, tags and an entity-escaped tag
SectionInputs ==
    Concats({<<"a">>, <<" ">>, <<"BOX">>}, MaxTextLen)
    \cup Concats({<<"a">>, <<" ">>, <<"NBSP">>, <<"THIN">>, <<"ENSP">>,
                  <<"EMSP">>, <<"BOX">>, TagOpen, TagClose,
                  EntityLt \o <<"b">> \o EntityGt}, MaxPieces)

MaxForms == 4

Forms == {"8-K", "8-K/A", "10-Q"}

\* the i-th entries of the filingDate and accessionNumber arrays; two
\* filings may share a date, accession numbers are unique
DateOf(i) == <<"date", (i + 1) \div 2>>

AccessionOf(i) == <<"acc", i>>

IndexData(form, nd, na) ==
    [raised |-> FALSE, has_recent |-> TRUE, form |-> form,
     filingDate      |-> [i \in 1..nd |-> DateOf(i)],
     accessionNumber |-> [i \in 1..na |-> AccessionOf(i)]]

IndexRaised ==
    [raised |-> TRUE, has_recent |-> FALSE, form |-> << >>,
     filingDate |-> << >>, accessionNumber |-> << >>]

IndexNoRecent == [IndexRaised EXCEPT !.raised = FALSE]

\* every index response: a failed request, a JSON without filings.recent,
\* and arrays of any lengths up to MaxForms (parallel or not)
IndexInputs ==
    {IndexRaised, IndexNoRecent}
    \cup {IndexData(form, nd, na) :
             form \in UNION {[1..n -> Forms] : n \in 0..MaxForms},
             nd \in 0..MaxForms, na \in 0..MaxForms}

(***************************************************************************)
(* Values of the variables a specification does not use                    *)
(***************************************************************************)
ExtractIdle ==
    /\ content = None
    /\ llm = NoCall
    /\ product_info = None
    /\ called = FALSE

SectionIdle ==
    /\ markup = << >>
    /\ text1 = None
    /\ text2 = None

IndexIdle ==
    /\ filings_data = IndexRaised
    /\ filings = << >>

RunIdle ==
    /\ company_data = << >>
    /\ ci = 0
    /\ fi = 0
    /\ results_df = << >>
    /\ written = None
    /\ fetched = << >>
    /\ yielded = << >>
    /\ modelCalls = 0
    /\ nonEmptyFetches = 0

(***************************************************************************)
(* SpecExtract: one call of extract_product_info on any content and reply  *)
(***************************************************************************)
InitExtract ==
    /\ pc = "extract_product_info"
    /\ content \in Contents
    /\ llm \in Replies
    /\ product_info = None
    /\ called = FALSE
    /\ SectionIdle
    /\ IndexIdle
    /\ RunIdle

ExtractCall ==
    /\ pc = "extract_product_info"
    /\ LET r == extract_product_info(content, llm)
       IN  /\ product_info' = r.ret
           /\ called' = r.called
    /\ pc' = "returned"
    /\ UNCHANGED <<content, llm, markup, text1, text2, filings_data, filings>>
    /\ UNCHANGED runVars

NextExtract == ExtractCall

SpecExtract == InitExtract /\ [][NextExtract]_vars

(***************************************************************************)
(* SpecSection: extract_section applied to a text, and again to its result *)
(***************************************************************************)
InitSection ==
    /\ pc = "extract_section"
    /\ markup \in SectionInputs
    /\ text1 = None
    /\ text2 = None
    /\ ExtractIdle
    /\ IndexIdle
    /\ RunIdle

SectionOnce ==
    /\ pc = "extract_section"
    /\ text1' = Some(extract_section(markup))
    /\ pc' = "once"
    /\ UNCHANGED <<content, llm, product_info, called, markup, text2,
                   filings_data, filings>>
    /\ UNCHANGED runVars

SectionTwice ==
    /\ pc = "once"
    /\ text2' = Some(extract_section(text1[1]))
    /\ pc' = "twice"
    /\ UNCHANGED <<content, llm, product_info, called, markup, text1,
                   filings_data, filings>>
    /\ UNCHANGED runVars

NextSection == SectionOnce \/ SectionTwice

SpecSection == InitSection /\ [][NextSection]_vars

(***************************************************************************)
(* SpecIndex: one call of get_8k_filings on any index response             *)
(***************************************************************************)
InitIndex ==
    /\ pc = "get_8k_filings"
    /\ filings_data \in IndexInputs
    /\ filings = << >>
    /\ ExtractIdle
    /\ SectionIdle
    /\ RunIdle

IndexCall ==
    /\ pc = "get_8k_filings"
    /\ LET r == get_8k_filings(filings_data)
       IN  /\ filings' = r.ret
           /\ pc' = IF r.raised THEN "raised" ELSE "returned"
    /\ UNCHANGED <<content, llm, product_info, called, markup, text1, text2,
                   filings_data>>
    /\ UNCHANGED runVars

NextIndex == IndexCall

SpecIndex == InitIndex /\ [][NextIndex]_vars

(***************************************************************************)
(* Spec: the script, lines 140-198                                         *)
(***************************************************************************)
MaxCompanies == 2

\* company_tickers.json, after lines 148-154
Roster ==
    [i \in 1..MaxCompanies |->
        [cik_str |-> <<"cik", i>>, ticker |-> <<"ticker", i>>, title |-> <<"title", i>>]]

MaxIndexLen == 8

\* the index responses of a run: a failed request, and parallel arrays
\* where every third form is not an 8-K, of lengths 2 and MaxIndexLen
RunIndexInputs ==
    {IndexRaised,
     IndexData([i \in 1..2 |-> IF i % 3 = 0 THEN "10-Q" ELSE "8-K"], 2, 2),
     IndexData([i \in 1..MaxIndexLen |-> IF i % 3 = 0 THEN "10-Q" ELSE "8-K"],
               MaxIndexLen, MaxIndexLen)}

DocRaised == [raised |-> TRUE, text |-> << >>]

Doc(text) == [raised |-> FALSE, text |-> text]

\* the document responses of a run: a failed request, a document with no
\* visible text, one with text between the delimiters, one without delimiters
RunDocs ==
    {DocRaised,
     Doc(TextOpen \o TagOpen \o TagClose \o TextClose),
     Doc(<<"x">> \o TextOpen \o TagOpen \o <<"t">> \o TextClose \o <<"y">>),
     Doc(TagOpen \o <<"t">>)}

MaxRows == 2

\* the model's replies in a run: a failed call, the sentinel, a description
\* alone and, while the model has named fewer than MaxRows products, a name
\* with a description
RunReplies(named) ==
    {Raised, Reply(NoProductPhrase), Reply(DescAnchor \o <<"W">>)}
    \cup (IF named < MaxRows
          THEN {Reply(NameAnchor \o <<" ", "V">> \o NL \o DescAnchor \o <<" ", "W">>)}
          ELSE {})

\* get_filing_content and extract_product_info on the inputs of a run,
\* evaluated once
ContentOf == [doc \in RunDocs |-> get_filing_content(doc)]

ExtractOf ==
    [text \in {ContentOf[doc] : doc \in RunDocs}, reply \in RunReplies(0) |->
        extract_product_info(text, reply)]

FilingsOf == [data \in RunIndexInputs |-> get_8k_filings(data)]

Init ==
    /\ pc = "load"
    /\ ExtractIdle
    /\ SectionIdle
    /\ IndexIdle
    /\ RunIdle

\* lines 142-154 succeed: the run has the first n companies of the roster
\* (line 154 keeps at most 100; the roster is shorter)
LoadCompanies ==
    /\ pc = "load"
    /\ \E n \in 0..MaxCompanies : company_data' = SubSeq(Roster, 1, n)
    /\ pc' = "for_company"
    /\ UNCHANGED <<fnVars, ci, fi, results_df, written, fetched, yielded,
                   modelCalls, nonEmptyFetches>>

\* lines 142-145 raise: lines 193-198 print the error and the script ends
LoadFails ==
    /\ pc = "load"
    /\ pc' = "aborted"
    /\ UNCHANGED <<fnVars, runVars>>

\* lines 157-164: the loop takes the next company and fetches its index; an
\* exception leaving get_8k_filings would end the script at lines 197-198
CompanyStep ==
    /\ pc = "for_company"
    /\ ci < Len(company_data)
    /\ \E data \in RunIndexInputs :
          LET r == FilingsOf[data]
          IN  /\ filings_data' = data
              /\ filings' = r.ret
              /\ pc' = IF r.raised THEN "aborted" ELSE "for_filing"
    /\ ci' = ci + 1
    /\ fi' = 0
    /\ fetched' = << >>
    /\ UNCHANGED <<content, llm, product_info, called, markup, text1, text2,
                   company_data, results_df, written, yielded, modelCalls,
                   nonEmptyFetches>>

\* lines 166-187: the loop takes the next filing, fetches its content, runs
\* the extraction, appends a row if it returned a record, and sleeps
FilingStep ==
    /\ pc = "for_filing"
    /\ fi < Len(SelectFilings(filings))
    /\ \E doc \in RunDocs, reply \in RunReplies(Len(yielded)) :
          LET company == company_data[ci]
              filing  == SelectFilings(filings)[fi + 1]
              text    == ContentOf[doc]
              r       == ExtractOf[text, reply]
          IN  /\ content' = text
              /\ product_info' = r.ret
              /\ called' = r.called
              /\ llm' = IF r.called THEN reply ELSE NoCall
              /\ fetched' = Append(fetched, filing)
              /\ nonEmptyFetches' =
                     IF Truthy(text) THEN nonEmptyFetches + 1 ELSE nonEmptyFetches
              /\ modelCalls' = IF r.called THEN modelCalls + 1 ELSE modelCalls
              /\ yielded' =
                     IF r.ret # None
                     THEN Append(yielded, [company |-> ci, filing |-> fi + 1,
                                           ref |-> filing, info |-> r.ret[1]])
                     ELSE yielded
              /\ results_df' =
                     IF ShouldAppend(r.ret)
                     THEN ConcatRow(results_df, MakeRow(company, filing, r.ret[1]))
                     ELSE results_df
    /\ fi' = fi + 1
    /\ UNCHANGED <<pc, markup, text1, text2, filings_data, filings,
                   company_data, ci, written>>

\* line 166: the filings of this company are exhausted
FilingsDone ==
    /\ pc = "for_filing"
    /\ fi >= Len(SelectFilings(filings))
    /\ pc' = "for_company"
    /\ UNCHANGED <<fnVars, runVars>>

\* line 157: the companies are exhausted
CompaniesDone ==
    /\ pc = "for_company"
    /\ ci >= Len(company_data)
    /\ pc' = "save"
    /\ UNCHANGED <<fnVars, runVars>>

\* lines 190-191
Save ==
    /\ pc = "save"
    /\ written' = Some(results_df)
    /\ pc' = "done"
    /\ UNCHANGED <<fnVars, company_data, ci, fi, results_df, fetched, yielded,
                   modelCalls, nonEmptyFetches>>

Next ==
    \/ LoadCompanies
    \/ LoadFails
    \/ CompanyStep
    \/ FilingStep
    \/ FilingsDone
    \/ CompaniesDone
    \/ Save

Spec == Init /\ [][Next]_vars

(***************************************************************************)
(* What the claims are stated with: substring occurrence and the line      *)
(* after an anchor, defined from positions and not from the model's find   *)
(***************************************************************************)
OccursAt(s, sub, p) ==
    /\ p >= 1
    /\ p + Len(sub) - 1 <= Len(s)
    /\ \A k \in 1..Len(sub) : s[p + k - 1] = sub[k]

Occurs(s, sub) == \E p \in 1..Len(s) : OccursAt(s, sub, p)

FirstOcc(s, sub) ==
    CHOOSE p \in 1..Len(s) :
        OccursAt(s, sub, p) /\ \A q \in 1..(p - 1) : ~OccursAt(s, sub, q)

\* the characters after the first occurrence of the anchor, up to the next
\* line break or the end of the reply
LineAfter(s, anchor) ==
    LET from  == FirstOcc(s, anchor) + Len(anchor)
        stops == {p \in from..Len(s) : s[p] = "\n"}
        to    == IF stops = {} THEN Len(s) ELSE Min(stops) - 1
    IN  SubSeq(s, from, to)

Blank(t) == \A p \in 1..Len(t) : t[p] \in Whitespace

Trimmed(t) ==
    LET ink == {p \in 1..Len(t) : t[p] \notin Whitespace}
    IN  IF ink = {} THEN << >> ELSE [k \in 1..(Max(ink) - Min(ink) + 1) |-> t[Min(ink) + k - 1]]

NameMissing(r) == ~Occurs(r, NameAnchor) \/ Blank(LineAfter(r, NameAnchor))

Answered == pc = "returned" /\ called /\ ~llm.raised

\* C1: a reply that contains "No new product found" anywhere yields None,
\* whatever anchors it also contains.
C1_SentinelOverridesAnchors ==
    (pc = "returned" /\ ~llm.raised /\ Occurs(llm.response, NoProductPhrase))
        => product_info = None

\* the model was called and its reply has a name line, a description line
\* and then the sentinel
C1_Witness ==
    /\ Answered
    /\ Occurs(llm.response, NameAnchor)
    /\ ~NameMissing(llm.response)
    /\ Occurs(llm.response, DescAnchor)
    /\ Occurs(llm.response, NoProductPhrase)
    /\ FirstOcc(llm.response, NameAnchor) < FirstOcc(llm.response, NoProductPhrase)
    /\ product_info = None

\* C2: a reply whose name anchor is absent, or is followed by only whitespace
\* up to the line break, yields None even with a description; no record has
\* an empty product name.
C2_NoRecordWithoutName ==
    /\ (Answered /\ NameMissing(llm.response)) => product_info = None
    /\ (pc = "returned" /\ product_info # None)
           => product_info[1].new_product # << >>

\* the reply has no sentinel, a name anchor with a blank line, and a
\* description that is not blank
C2_Witness ==
    /\ Answered
    /\ ~Occurs(llm.response, NoProductPhrase)
    /\ Occurs(llm.response, NameAnchor)
    /\ Blank(LineAfter(llm.response, NameAnchor))
    /\ Occurs(llm.response, DescAnchor)
    /\ ~Blank(LineAfter(llm.response, DescAnchor))
    /\ product_info = None

\* the trimmed description line of the reply, "" without the anchor
RawDescription ==
    IF Occurs(llm.response, DescAnchor)
    THEN Trimmed(LineAfter(llm.response, DescAnchor))
    ELSE << >>

TargetIndices == {i \in 1..Len(filings_data.form) : filings_data.form[i] = "8-K"}

\* the k-th of them, in array order
NthTarget(k) ==
    CHOOSE i \in TargetIndices : Cardinality({j \in TargetIndices : j < i}) = k - 1

\* exactly one pair per "8-K" entry, from that entry's index, in array order
ExactlyTheTargets ==
    /\ Len(filings) = Cardinality(TargetIndices)
    /\ \A k \in 1..Len(filings) :
          /\ NthTarget(k) <= Len(filings_data.filingDate)
          /\ NthTarget(k) <= Len(filings_data.accessionNumber)
          /\ filings[k] = <<filings_data.filingDate[NthTarget(k)],
                            filings_data.accessionNumber[NthTarget(k)]>>

\* both arrays reach every index that holds an "8-K"
ArraysCoverTargets ==
    \A i \in TargetIndices :
        i <= Len(filings_data.filingDate) /\ i <= Len(filings_data.accessionNumber)

\* C4 as stated: for any index response with N form entries of which M are
\* "8-K", get_8k_filings returns exactly M pairs, each from the index of its
\* form entry, in array order.
C4_AsStated ==
    (pc = "returned" /\ ~filings_data.raised) => ExactlyTheTargets

\* C4 as amended: that holds when the filingDate and accessionNumber arrays
\* reach every index holding an "8-K" (so for parallel arrays); when one of
\* them is shorter, the result is empty.
C4_FilterWhenArraysCover ==
    (pc = "returned" /\ ~filings_data.raised) =>
        /\ ArraysCoverTargets => ExactlyTheTargets
        /\ ~ArraysCoverTargets => filings = << >>

\* parallel arrays with two "8-K" entries and another form between them
C4_Witness ==
    /\ pc = "returned"
    /\ Len(filings_data.form) = Len(filings_data.filingDate)
    /\ Len(filings_data.form) = Len(filings_data.accessionNumber)
    /\ \E i, j, l \in 1..Len(filings_data.form) :
          /\ i < j /\ j < l
          /\ filings_data.form[i] = "8-K"
          /\ filings_data.form[j] = "8-K/A"
          /\ filings_data.form[l] = "8-K"
    /\ Cardinality(TargetIndices) = 2
    /\ Len(filings) = 2

\* C5: of the k filings the index fetch returned, the loop requests the
\* content of the first min(5, k), in order, and of no other.
C5_AtMostFiveInOrder ==
    /\ Len(fetched) <= 5
    /\ Len(fetched) <= Len(filings)
    /\ fetched = SubSeq(filings, 1, Len(fetched))
    /\ pc \in {"for_company", "save", "done"} =>
           Len(fetched) = (IF Len(filings) < 5 THEN Len(filings) ELSE 5)

\* a company with more than five 8-K filings has been completed
C5_Witness ==
    /\ pc = "for_company"
    /\ Len(filings) > 5
    /\ Len(fetched) = 5

\* C6: a call with None or empty filing text returns None without calling
\* the model, and the model calls of a run never outnumber the content
\* requests that returned a non-empty text.
C6_NoCallWithoutText ==
    /\ (content = None \/ content = Some(<< >>)) =>
           (product_info = None /\ ~called /\ llm = NoCall)
    /\ modelCalls <= nonEmptyFetches

\* the last filing had an empty text, after a filing that reached the model
C6_Witness ==
    /\ pc = "for_filing"
    /\ fi >= 2
    /\ content = Some(<< >>)
    /\ ~called
    /\ modelCalls >= 1

\* C7 as stated: extract_section applied to its own result returns it
\* unchanged.
C7_Idempotent == pc = "twice" => text2 = text1

\* the row a yielding step must have produced
RowOf(y) ==
    [company_name        |-> company_data[y.company].title,
     stock_name          |-> company_data[y.company].ticker,
     filing_time         |-> y.ref[1],
     new_product         |-> y.info.new_product,
     product_description |-> y.info.product_description]

\* C8: the table holds exactly one row per processed (company, filing) whose
\* extraction returned a record, with the company's name and ticker, the
\* filing's date and the extracted name (never empty) and description.
C8_RowIffRecord ==
    /\ Len(results_df) = Len(yielded)
    /\ \A k \in 1..Len(yielded) :
          /\ results_df[k] = RowOf(yielded[k])
          /\ yielded[k].info.new_product # << >>
    /\ \A j, k \in 1..Len(yielded) :
          j # k => <<yielded[j].company, yielded[j].filing>>
                   # <<yielded[k].company, yielded[k].filing>>

\* a finished run with two rows and more model calls than rows
C8_Witness ==
    /\ pc = "done"
    /\ Len(results_df) = 2
    /\ modelCalls > 2

IndexStep == ci' = ci + 1

FilingTaken == fi' = fi + 1

IsPrefixOf(s, t) == Len(s) <= Len(t) /\ s = SubSeq(t, 1, Len(s))

\* C10: every step leaves the table a prefix of the new table, and the rows
\* are in order of company and, within a company, of filing; equal
\* company/product pairs of different filings are separate rows.
C10_AppendOnlyInDiscoveryOrder ==
    /\ [][IsPrefixOf(results_df, results_df')]_vars
    /\ [](/\ Len(results_df) = Len(yielded)
          /\ \A k \in 1..Len(yielded) :
                /\ results_df[k].company_name = company_data[yielded[k].company].title
                /\ results_df[k].filing_time = yielded[k].ref[1]
          /\ \A j, k \in 1..Len(yielded) :
                j < k =>
                  \/ yielded[j].company < yielded[k].company
                  \/ /\ yielded[j].company = yielded[k].company
                     /\ yielded[j].filing < yielded[k].filing)

\* two rows of one company with the same product, from different filings
C10_Witness ==
    /\ Len(results_df) = 2
    /\ results_df[1].company_name = results_df[2].company_name
    /\ results_df[1].new_product = results_df[2].new_product
    /\ yielded[1].filing # yielded[2].filing

====
